---- MODULE Spec2Model ----
(***************************************************************************)
(* Model of the container runtime exported by src/export/exported.c:       *)
(* the identity-keyed dictionary (dict.c section), the dynamic array       *)
(* (dyn-array.c section), the dynamic list-of (dyn-list-of.c section) and  *)
(* the walk over an object graph (ffi_sexp_iterate).                       *)
(* The exported entry points are translated from exported.c; the library   *)
(* routines they call (the r_dict, r_arr, r_lof and r_sexp_iterator         *)
(* families) live outside                                                  *)
(* src/ and are modelled from the specification (spec.md, sections 3, 4).  *)
(***************************************************************************)
EXTENDS Integers, Sequences, FiniteSets, TLC

VARIABLES
  dict,   \* the struct r_dict behind the dictionary shelter
  dit,    \* the struct r_dict_iterator behind the iterator shelter, or NoIt
  arr,    \* the struct r_dyn_array behind the array shelter
  stk,    \* the pushes and pops made so far by a push-then-pop run
  lof,    \* the struct r_dyn_list_of behind the list-of shelter
  grp,    \* per group: the values pushed so far, and whether a push into
          \* it reported a relocation
  op,     \* the entry point called last and its arguments
  ret,    \* what the entry point returned
  err,    \* the error it raised, "none" when it returned normally
  heap,   \* the object graph ffi_sexp_iterate() walks: per object, its type
          \* and the objects it refers to
  p_it,   \* the struct r_sexp_iterator of the walk
  p_dict, \* the dictionary of the environments the walk has visited
  p_out,  \* the dynamic list of what the callback returned
  iter_i, \* the loop counter i of ffi_sexp_iterate()
  pc,     \* where ffi_sexp_iterate() stands: "next", "yield", "visit",
          \* "done" (returned) or "cancelled" (left by the interrupt)
  interrupt,  \* whether the host's interrupt signal is pending
  since   \* advances made since the signal was raised, -1 before it is

walkvars == <<heap, p_it, p_dict, p_out, iter_i, pc, interrupt, since>>

vars == <<dict, dit, arr, stk, lof, grp, op, ret, err, walkvars>>

\* ---------------------------------------------------------------- bounds

\* Keys are objects; a key's identity is its address 1..NKeys.
NKeys == 3
\* Largest capacity a dictionary is created with.
InitCap == 2
\* Largest capacity a dictionary grows or is resized to.
MaxCap == 4
\* Largest number of slots (live and deleted) of the insertion-order record.
MaxSlots == 3

\* Keys offered to the bounded dictionary of capacity 4.
NBoundedKeys == 5
\* Largest number of slots of the bounded dictionary's insertion-order record.
MaxBoundedSlots == 5

\* Largest capacity a dynamic array is created with.
InitArrCap == 2
\* Largest capacity a dynamic array grows or is resized to.
MaxArrCap == 4
\* Largest number of pushes of a push-then-pop run.
MaxPushes == 4

\* Most children of the root list of a walked graph.
MaxChildren == 2
\* Lists in the chain walked under interruption.
ChainLen == 55

\* Largest per-group reserve (width) a dynamic list-of is created with.
InitWidth == 2
\* Largest capacity the storage of a group grows to.
MaxGroupCap == 4

Keys == 1..NKeys
BoundedKeys == 1..NBoundedKeys
Values == {"a", "b"}

\* Structure of a key object: keys 1 and 3 are distinct objects that are
\* structurally equal.
KeyContent(k) == k % 2

\* ------------------------------------------------------------- R objects

r_int(n) == [type |-> "integer", val |-> n]
r_dbl(n) == [type |-> "double", val |-> n]
r_lgl(b) == [type |-> "logical", val |-> b]
r_null == [type |-> "NULL", val |-> 0]

r_is_int(x) == x.type = "integer"
r_is_bool(x) == x.type = "logical"
r_int_get(x) == x.val
r_lgl_get(x) == x.val

Min(S) == CHOOSE x \in S : \A y \in S : x <= y

\* ------------------------------------------------------------ dictionary

Missing == "missing"
NoKey == 0
Tomb == [key |-> NoKey, value |-> Missing, live |-> FALSE]

dict_hash(key, capacity) == key % capacity

\* The bucket table of `order` for `capacity` buckets: each bucket chains the
\* positions of its live slots, oldest first.
dict_buckets(order, capacity) ==
  [b \in 0..(capacity - 1) |->
     LET InBucket(p) == order[p].live /\ dict_hash(order[p].key, capacity) = b
     IN SelectSeq([p \in 1..Len(order) |-> p], InBucket)]

r_new_dict(size) ==
  [capacity |-> size, count |-> 0, prevent_resize |-> FALSE,
   order |-> <<>>, buckets |-> dict_buckets(<<>>, size)]

\* Position in the insertion-order record of the live slot holding `key`
\* (compared by identity), 0 when there is none.
dict_find(d, key) ==
  LET chain == d.buckets[dict_hash(key, d.capacity)]
      hits == {i \in 1..Len(chain) : d.order[chain[i]].key = key}
  IN IF hits = {} THEN 0 ELSE chain[Min(hits)]

r_dict_has(d, key) == dict_find(d, key) # 0

r_dict_get(d, key) ==
  LET p == dict_find(d, key)
  IN IF p = 0 THEN Missing ELSE d.order[p].value

\* Rehash into `size` buckets; deleted slots are dropped, the live ones keep
\* their relative order.
dict_rehash(d, size) ==
  LET IsLive(s) == s.live
      live == SelectSeq(d.order, IsLive)
  IN [d EXCEPT !.capacity = size, !.order = live,
               !.buckets = dict_buckets(live, size)]

r_dict_resize(d, size) ==
  IF size < d.count
  THEN [dict |-> d, err |-> "InvalidArgument"]
  ELSE [dict |-> dict_rehash(d, size), err |-> "none"]

dict_push(d, key, value) ==
  LET p == Len(d.order) + 1
      b == dict_hash(key, d.capacity)
  IN [d EXCEPT !.order = Append(@, [key |-> key, value |-> value, live |-> TRUE]),
               !.buckets[b] = Append(@, p),
               !.count = @ + 1]

r_dict_put(d, key, value) ==
  LET p == dict_find(d, key)
  IN IF p # 0
     THEN [dict |-> [d EXCEPT !.order[p].value = value],
           ret |-> FALSE, err |-> "none"]
     ELSE IF d.count = d.capacity /\ d.prevent_resize
     THEN [dict |-> d, ret |-> FALSE, err |-> "CapacityExceeded"]
     ELSE LET g == IF d.count = d.capacity
                   THEN dict_rehash(d, 2 * d.capacity)
                   ELSE d
          IN [dict |-> dict_push(g, key, value), ret |-> TRUE, err |-> "none"]

\* The slot is marked deleted and unchained; the record is not compacted.
r_dict_del(d, key) ==
  LET p == dict_find(d, key)
      b == dict_hash(key, d.capacity)
      Keep(q) == q # p
  IN IF p = 0
     THEN [dict |-> d, ret |-> FALSE]
     ELSE [dict |-> [d EXCEPT !.order[p] = Tomb,
                              !.buckets[b] = SelectSeq(@, Keep),
                              !.count = @ - 1],
           ret |-> TRUE]

\* ------------------------------------------------------ iterator

NoIt == [n |-> -1, i |-> -1, pos |-> 0, key |-> NoKey, value |-> Missing]

r_new_dict_iterator(d) ==
  [n |-> d.count, i |-> -1, pos |-> 0, key |-> NoKey, value |-> Missing]

\* Moves to the next live slot after `pos`; false once `n` entries were given.
r_dict_next(it, d) ==
  LET nxt == {p \in (it.pos + 1)..Len(d.order) : d.order[p].live}
  IN IF it.i + 1 >= it.n \/ nxt = {}
     THEN [it |-> it, ret |-> FALSE]
     ELSE [it |-> [it EXCEPT !.i = @ + 1, !.pos = Min(nxt),
                             !.key = d.order[Min(nxt)].key,
                             !.value = d.order[Min(nxt)].value],
           ret |-> TRUE]

\* ------------------------------------------- exported dictionary entry points

\* Mutant: the prevent_resize argument is checked but never stored.
rlang_new_dict_noflag(size, prevent_resize) ==
  IF ~r_is_int(size) \/ ~r_is_bool(prevent_resize)
  THEN [dict |-> r_new_dict(1), err |-> "InvalidArgument"]
  ELSE [dict |-> r_new_dict(r_int_get(size)), err |-> "none"]

rlang_new_dict(size, prevent_resize) ==
  IF ~r_is_int(size)
  THEN [dict |-> r_new_dict(1), err |-> "InvalidArgument"]
  ELSE IF ~r_is_bool(prevent_resize)
  THEN [dict |-> r_new_dict(1), err |-> "InvalidArgument"]
  ELSE [dict |-> [r_new_dict(r_int_get(size))
                    EXCEPT !.prevent_resize = r_lgl_get(prevent_resize)],
        err |-> "none"]

\* Mutant: the entry point deletes the key before putting it.
rlang_dict_put_fresh(d, key, value) ==
  r_dict_put(r_dict_del(d, key).dict, key, value)

rlang_dict_put(d, key, value) == r_dict_put(d, key, value)

\* Mutant: the entry point asks r_dict_has instead of deleting.
rlang_dict_del_has(d, key) == [dict |-> d, ret |-> r_dict_has(d, key)]

rlang_dict_del(d, key) == r_dict_del(d, key)

rlang_dict_has(d, key) == r_dict_has(d, key)

rlang_dict_get(d, key) == r_dict_get(d, key)

\* Mutant: the entry point resizes through a rehash that walks the record
\* from its newest slot.
rlang_dict_resize_reversed(d, size) ==
  IF ~r_is_int(size)
  THEN [dict |-> d, err |-> "InvalidArgument"]
  ELSE LET res == r_dict_resize(d, r_int_get(size))
           o == res.dict.order
           rev == [p \in 1..Len(o) |-> o[Len(o) + 1 - p]]
       IN [res EXCEPT !.dict.order = rev,
                      !.dict.buckets = dict_buckets(rev, res.dict.capacity)]

rlang_dict_resize(d, size) ==
  IF ~r_is_int(size)
  THEN [dict |-> d, err |-> "InvalidArgument"]
  ELSE r_dict_resize(d, r_int_get(size))

rlang_new_dict_iterator(d) == r_new_dict_iterator(d)

\* Mutant: the entry point advances the iterator twice.
rlang_dict_it_next_twice(it, d) == r_dict_next(r_dict_next(it, d).it, d)

rlang_dict_it_next(it, d) == r_dict_next(it, d)

\* The list rlang_dict_it_info() returns.
rlang_dict_it_info(it) ==
  [key |-> it.key, value |-> it.value, i |-> it.i, n |-> it.n]

\* --------------------------------------------------------- dynamic array

\* Byte size of one element of a vector of the given type (pointers are 8
\* bytes wide).
r_vec_elt_sizeof0(type) ==
  CASE type = "raw" -> 1
    [] type = "logical" -> 4
    [] type = "double" -> 8
    [] type = "list" -> 8

r_vec_elt_sizeof(x) == r_vec_elt_sizeof0(x.type)

\* sizeof(bool)
SizeofBool == 1

r_chr(s) == [type |-> "character", val |-> s]
r_chr_as_r_type(x) == x.val
r_as_ssize(x) == x.val
r_as_bool(x) == x.val

\* An R vector whose first element is `v`.
r_vec(type, v) == [type |-> type, val |-> v]

\* What a dynamic array stores for a pushed element: the bytes of the first
\* element of a vector (r_vec_cbegin), or a reference to the object itself.
r_vec_cbegin(x) == [ref |-> FALSE, val |-> x.val]
ObjRef(x) == [ref |-> TRUE, val |-> x.val]

GrowthFactor == 2

\* The list-of of the group growth scenario has two groups.
WidthCapacity == 2

Max(a, b) == IF a >= b THEN a ELSE b

new_dyn_array(type, elt_byte_size, barrier_set, capacity) ==
  IF elt_byte_size <= 0 \/ capacity < 0
  THEN [arr |-> [count |-> 0], err |-> "InvalidArgument"]
  ELSE [arr |-> [count |-> 0, capacity |-> capacity,
                 growth_factor |-> GrowthFactor, type |-> type,
                 elt_byte_size |-> elt_byte_size,
                 barrier_set |-> barrier_set, data |-> <<>>],
        err |-> "none"]

r_new_dyn_vector(type, capacity) ==
  new_dyn_array(type, r_vec_elt_sizeof0(type),
                type \in {"character", "list"}, capacity)

r_new_dyn_array(elt_byte_size, capacity) ==
  new_dyn_array("raw", elt_byte_size, FALSE, capacity)

\* Sets the capacity; elements past the new capacity are released.
r_arr_resize(a, capacity) ==
  IF capacity < 0
  THEN [arr |-> a, err |-> "InvalidArgument"]
  ELSE LET n == IF capacity < a.count THEN capacity ELSE a.count
       IN [arr |-> [a EXCEPT !.capacity = capacity, !.count = n,
                             !.data = SubSeq(@, 1, n)],
           err |-> "none"]

\* max(count + 1, ceil(capacity * growth_factor))
arr_grown_capacity(a) == Max(a.count + 1, a.capacity * a.growth_factor)

r_arr_push_back(a, elt) ==
  LET g == IF a.count = a.capacity
           THEN r_arr_resize(a, arr_grown_capacity(a)).arr
           ELSE a
  IN [arr |-> [g EXCEPT !.data = Append(@, elt), !.count = @ + 1],
      err |-> "none"]

r_arr_pop_back(a) ==
  IF a.count = 0
  THEN [arr |-> a, err |-> "Underflow"]
  ELSE [arr |-> [a EXCEPT !.count = @ - 1,
                          !.data = SubSeq(@, 1, a.count - 1)],
        err |-> "none"]

\* ------------------------------------------------ exported array entry points

rlang_new_dyn_vector(type, capacity) ==
  r_new_dyn_vector(r_chr_as_r_type(type), r_as_ssize(capacity))

rlang_new_dyn_array(elt_byte_size, capacity) ==
  r_new_dyn_array(r_as_ssize(elt_byte_size), r_as_ssize(capacity))

\* The list rlang_arr_info() returns.
rlang_arr_info(a) ==
  [count |-> a.count, capacity |-> a.capacity,
   growth_factor |-> a.growth_factor, type |-> a.type,
   elt_byte_size |-> a.elt_byte_size]

rlang_arr_unwrap(a) == a.data

\* Mutant: the entry point makes room for exactly one more element before
\* it pushes into a full array.
rlang_arr_push_back_tight(a, x) ==
  IF ~a.barrier_set /\ r_vec_elt_sizeof(x) # a.elt_byte_size
  THEN [arr |-> a, err |-> "TypeMismatch"]
  ELSE LET g == IF a.count = a.capacity
                THEN r_arr_resize(a, a.count + 1).arr ELSE a
       IN IF a.type \in {"character", "list"}
          THEN r_arr_push_back(g, ObjRef(x))
          ELSE r_arr_push_back(g, r_vec_cbegin(x))

rlang_arr_push_back(a, x) ==
  IF ~a.barrier_set /\ r_vec_elt_sizeof(x) # a.elt_byte_size
  THEN [arr |-> a, err |-> "TypeMismatch"]
  ELSE IF a.type \in {"character", "list"}
  THEN r_arr_push_back(a, ObjRef(x))
  ELSE r_arr_push_back(a, r_vec_cbegin(x))

\* What r_arr_push_back can copy from the address of a C bool: the bool when
\* the array's elements are one byte wide, and otherwise elt_byte_size bytes
\* of which all but the first lie outside the bool (an out-of-bounds read,
\* any value).
BoolBytes(a, b) ==
  IF a.elt_byte_size = SizeofBool /\ ~a.barrier_set
  THEN {[ref |-> FALSE, val |-> IF b THEN "TRUE" ELSE "FALSE"]}
  ELSE {[ref |-> a.barrier_set, val |-> v] : v \in {"junk", "x"}}

\* The outcomes of rlang_arr_push_back_bool: the push is made without a
\* check of the byte size.
rlang_arr_push_back_bool(a, x_sexp) ==
  {r_arr_push_back(a, e) : e \in BoolBytes(a, r_as_bool(x_sexp))}

\* Mutant: the entry point gives the freed storage back after the pop.
rlang_arr_pop_back_shrink(a) ==
  LET res == r_arr_pop_back(a)
  IN IF res.err # "none" THEN res ELSE r_arr_resize(res.arr, res.arr.count)

\* Mutant: the entry point pops without regard for an empty array.
rlang_arr_pop_back_unchecked(a) ==
  [arr |-> [a EXCEPT !.count = @ - 1,
                     !.data = SubSeq(@, 1, a.count - 1)],
   err |-> "none"]

rlang_arr_pop_back(a) == r_arr_pop_back(a)

\* Mutant: the entry point empties the array before giving it its capacity.
rlang_arr_resize_fresh(a, capacity_sexp) ==
  r_arr_resize(r_arr_resize(a, 0).arr, r_as_ssize(capacity_sexp))

\* Mutant: the entry point never asks for less capacity than the count.
rlang_arr_resize_keep(a, capacity_sexp) ==
  IF r_as_ssize(capacity_sexp) < 0
  THEN r_arr_resize(a, r_as_ssize(capacity_sexp))
  ELSE r_arr_resize(a, Max(r_as_ssize(capacity_sexp), a.count))

rlang_arr_resize(a, capacity_sexp) == r_arr_resize(a, r_as_ssize(capacity_sexp))

\* ------------------------------------------------------- dynamic list-of

r_typeof(x) == x.type
r_vec_begin(x) == [ref |-> FALSE, val |-> x.val]

\* Storage of one group: `capacity` elements, of which Len(data) are in use.
lof_storage(capacity) == [capacity |-> capacity, data |-> <<>>]

\* A list-of owns its storages by number: `arrays` names the storage of each
\* group, `moved` the spare one.
r_new_dyn_list_of(type, capacity, width) ==
  [count |-> 0, capacity |-> capacity, width |-> width,
   growth_factor |-> GrowthFactor, type |-> type,
   elt_byte_size |-> r_vec_elt_sizeof0(type),
   bufs |-> (0 :> lof_storage(width)), arrays |-> <<>>, moved |-> 0,
   relocated |-> FALSE]

\* Appends a new, empty group that holds `width` elements before it grows.
r_lof_push_back(l) ==
  LET id == l.count + 1
      cap == IF l.count = l.capacity
             THEN Max(l.count + 1, l.capacity * l.growth_factor)
             ELSE l.capacity
  IN [lof |-> [l EXCEPT !.capacity = cap, !.count = @ + 1,
                        !.bufs = @ @@ (id :> lof_storage(l.width)),
                        !.arrays = Append(@, id),
                        !.relocated = FALSE],
      err |-> "none"]

\* Appends to group i (from 0). A full group is promoted through the spare:
\* its contents are copied into the spare, enlarged for them, the spare
\* becomes the group's storage and the group's old storage the spare.
r_lof_arr_push_back(l, i, elt) ==
  IF i < 0 \/ i >= l.count
  THEN [lof |-> l, err |-> "OutOfBounds"]
  ELSE LET id == l.arrays[i + 1]
           g == l.bufs[id]
           cap == Max(Len(g.data) + 1, g.capacity * l.growth_factor)
           spare == [capacity |-> Max(l.bufs[l.moved].capacity, cap),
                     data |-> g.data]
       IN IF Len(g.data) = g.capacity
          THEN [lof |-> [l EXCEPT
                   !.bufs = [@ EXCEPT
                      ![l.moved] = [spare EXCEPT !.data = Append(@, elt)],
                      ![id] = lof_storage(g.capacity)],
                   !.arrays[i + 1] = l.moved,
                   !.moved = id,
                   !.relocated = TRUE],
                err |-> "none"]
          ELSE [lof |-> [l EXCEPT !.bufs[id].data = Append(@, elt),
                                  !.relocated = FALSE],
                err |-> "none"]

\* The list of the groups' contents.
r_lof_unwrap(l) == [i \in 1..l.count |-> l.bufs[l.arrays[i]].data]

\* ---------------------------------------------- exported list-of entry points

ffi_new_dyn_list_of(type, capacity, width) ==
  r_new_dyn_list_of(r_chr_as_r_type(type), r_as_ssize(capacity),
                    r_as_ssize(width))

\* The list ffi_lof_info() returns.
ffi_lof_info(l) ==
  [count |-> l.count, growth_factor |-> l.growth_factor,
   arrays |-> r_lof_unwrap(l), width |-> l.width, capacity |-> l.capacity,
   moved_array |-> l.bufs[l.moved].data, type |-> l.type,
   elt_byte_size |-> l.elt_byte_size]

ffi_lof_unwrap(l) == r_lof_unwrap(l)

ffi_lof_push_back(l) == r_lof_push_back(l)

\* Mutant: the index is taken as counted from 1 and the value goes into the
\* group after the one named.
ffi_lof_arr_push_back_next(l, i, value) ==
  IF r_typeof(value) # l.type
  THEN [lof |-> l, err |-> "TypeMismatch"]
  ELSE IF r_as_ssize(i) + 1 < l.count
  THEN r_lof_arr_push_back(l, r_as_ssize(i) + 1, r_vec_begin(value))
  ELSE r_lof_arr_push_back(l, r_as_ssize(i), r_vec_begin(value))

\* Mutant: an index past the last group is taken as the last group.
ffi_lof_arr_push_back_clamped(l, i, value) ==
  IF r_typeof(value) # l.type
  THEN [lof |-> l, err |-> "TypeMismatch"]
  ELSE IF r_as_ssize(i) >= l.count /\ l.count > 0
  THEN r_lof_arr_push_back(l, l.count - 1, r_vec_begin(value))
  ELSE r_lof_arr_push_back(l, r_as_ssize(i), r_vec_begin(value))

ffi_lof_arr_push_back(l, i, value) ==
  IF r_typeof(value) # l.type
  THEN [lof |-> l, err |-> "TypeMismatch"]
  ELSE r_lof_arr_push_back(l, r_as_ssize(i), r_vec_begin(value))

\* ------------------------------------------------------ object graph walk

\* Objects are named by their address. NoNode is no object: the parent of
\* the root, and the current object of an iterator that stands on none.
NoNode == 0
r_global_env == 1

r_type_as_character(type) == r_chr(type)
r_obj_address(x) == ToString(x)
r_str_as_character(s) == r_chr(s)

\* An object as the callback receives it: its type and its identity.
r_obj(h, x) == IF x = NoNode THEN r_null ELSE [type |-> h[x].type, val |-> x]

\* A frame of the iterator's stack: an object still to visit, with its
\* depth, its parent, its relation to the parent and its index among the
\* parent's children.
sexp_frame(x, depth, parent, rel, i) ==
  [x |-> x, depth |-> depth, parent |-> parent, rel |-> rel, i |-> i]

r_sexp_it_relation(type) ==
  IF type = "environment" THEN "environment_frame" ELSE "list_elt"

Reverse(q) == [k \in 1..Len(q) |-> q[Len(q) + 1 - k]]

\* The frames of the children of the iterator's current object, in the
\* object's enumeration order.
sexp_children(h, it) ==
  [k \in 1..Len(h[it.x].children) |->
     sexp_frame(h[it.x].children[k], it.depth + 1, it.x,
                r_sexp_it_relation(it.type), k - 1)]

\* An iterator that stands on no object, with `stack` still to visit.
sexp_it_idle(stack) ==
  [x |-> NoNode, type |-> "NULL", depth |-> -1, parent |-> NoNode,
   rel |-> "none", i |-> 0, dir |-> "none", skip_incoming |-> FALSE,
   stack |-> stack]

\* The frame stack holds the root at depth 0.
r_new_sexp_iterator(root) ==
  sexp_it_idle(<<sexp_frame(root, 0, NoNode, "root", 0)>>)

\* Advance: the children of the object given last are pushed unless the
\* consumer set skip_incoming on it; the next frame in depth-first order is
\* popped and becomes the current object. False once the stack is empty.
r_sexp_next(h, it) ==
  LET pending == IF it.x # NoNode /\ ~it.skip_incoming
                 THEN it.stack \o Reverse(sexp_children(h, it))
                 ELSE it.stack
      top == pending[Len(pending)]
  IN IF pending = <<>>
     THEN [it |-> sexp_it_idle(<<>>), ret |-> FALSE]
     ELSE [it |-> [x |-> top.x, type |-> h[top.x].type, depth |-> top.depth,
                   parent |-> top.parent, rel |-> top.rel, i |-> top.i,
                   dir |-> "incoming", skip_incoming |-> FALSE,
                   stack |-> SubSeq(pending, 1, Len(pending) - 1)],
           ret |-> TRUE]

r_list_push_back(a, elt) == r_arr_push_back(a, elt)

\* The consumer: a function that returns the arguments it was called with.
r_exec_mask_n(args) == args

\* ---------------------------------------------------------- ffi_sexp_iterate

OutCapacity == 256
VisitedCapacity == 1024
YieldInterval == 100

\* What ffi_sexp_iterate() creates before its loop.
sexp_iterate_new(x) ==
  [p_out |-> r_new_dyn_vector("list", OutCapacity).arr,
   p_dict |-> r_new_dict(VisitedCapacity),
   p_it |-> r_new_sexp_iterator(x)]

\* Mutant: the loop yields in its first iteration only.
sexp_iterate_yields_once(i) == i = 0

\* Whether iteration i of the loop yields to a pending interrupt.
sexp_iterate_yields(i) == i % YieldInterval = 0

protect_missing(h, x) ==
  IF x # NoNode /\ h[x].type = "promise"
  THEN [type |-> "language", val |-> x]
  ELSE r_obj(h, x)

\* The arguments the callback is called with, by name.
sexp_iterate_args(h, it) ==
  [x |-> protect_missing(h, it.x),
   addr |-> r_str_as_character(r_obj_address(it.x)),
   type |-> protect_missing(h, it.parent),
   depth |-> r_type_as_character(it.type),
   parent |-> r_int(it.depth),
   rel |-> r_chr(it.rel),
   i |-> r_int(it.i + 1),
   dir |-> r_chr(it.dir)]

\* Mutant: the skipped objects are not given to the callback, but
\* skip_incoming is left as it is.
sexp_iterate_body_descend(h, it, d, out) ==
  LET put == r_dict_put(d, it.x, r_null)
      skip == [p_it |-> it, p_dict |-> d, p_out |-> out]
      call(d2) ==
        [p_it |-> it, p_dict |-> d2,
         p_out |-> r_list_push_back(out,
                     r_exec_mask_n(sexp_iterate_args(h, it))).arr]
  IN IF it.x = r_global_env
     THEN skip
     ELSE IF it.dir = "incoming" /\ it.type = "environment"
     THEN IF ~put.ret
          THEN [skip EXCEPT !.p_dict = put.dict]
          ELSE call(put.dict)
     ELSE call(d)

\* The body of the loop after the yield: the global environment and an
\* environment met again are skipped, any other object goes to the callback
\* and the callback's result to the output list.
sexp_iterate_body(h, it, d, out) ==
  LET put == r_dict_put(d, it.x, r_null)
      skip == [p_it |-> [it EXCEPT !.skip_incoming = TRUE],
               p_dict |-> d, p_out |-> out]
      call(d2) ==
        [p_it |-> it, p_dict |-> d2,
         p_out |-> r_list_push_back(out,
                     r_exec_mask_n(sexp_iterate_args(h, it))).arr]
  IN IF it.x = r_global_env
     THEN skip
     ELSE IF it.dir = "incoming" /\ it.type = "environment"
     THEN IF ~put.ret
          THEN [skip EXCEPT !.p_dict = put.dict]
          ELSE call(put.dict)
     ELSE call(d)

\* --------------------------------------------------------------- actions

\* The walk's variables in the specifications that walk no graph.
NoWalk ==
  /\ heap = <<>>
  /\ p_it = sexp_it_idle(<<>>)
  /\ p_dict = r_new_dict(1)
  /\ p_out = new_dyn_array("raw", 1, FALSE, 0).arr
  /\ iter_i = 0
  /\ pc = "idle"
  /\ interrupt = FALSE
  /\ since = -1

Op(name, key, value) == [name |-> name, key |-> key, value |-> value]

SizeArgs == {r_int(n) : n \in 1..MaxCap} \cup {r_dbl(2)}

NoArr == new_dyn_array("raw", 1, FALSE, 0).arr
NoStk == [pushed |-> 0, popped |-> 0, cap |-> 0]
NoLof == r_new_dyn_list_of("raw", 0, 0)
NoGrp == [pushed |-> <<>>, relocs |-> <<>>]

InitDict ==
  /\ arr = NoArr
  /\ stk = NoStk
  /\ lof = NoLof
  /\ grp = NoGrp
  /\ dict \in {rlang_new_dict(r_int(n), r_lgl(p)).dict :
                 n \in 1..InitCap, p \in BOOLEAN}
  /\ dit = NoIt
  /\ op = Op("new", NoKey, Missing)
  /\ ret = FALSE
  /\ err = "none"
  /\ NoWalk

DictPut(key, value) ==
  LET res == rlang_dict_put(dict, key, value)
  IN /\ Len(res.dict.order) <= MaxSlots
     /\ res.dict.capacity <= MaxCap
     /\ dict' = res.dict
     /\ ret' = res.ret
     /\ err' = res.err
     /\ op' = Op("put", key, value)
     /\ dit' = NoIt
     /\ UNCHANGED <<arr, stk, lof, grp, walkvars>>

DictDel(key) ==
  LET res == rlang_dict_del(dict, key)
  IN /\ dict' = res.dict
     /\ ret' = res.ret
     /\ err' = "none"
     /\ op' = Op("del", key, Missing)
     /\ dit' = NoIt
     /\ UNCHANGED <<arr, stk, lof, grp, walkvars>>

DictHas(key) ==
  /\ ret' = rlang_dict_has(dict, key)
  /\ err' = "none"
  /\ op' = Op("has", key, Missing)
  /\ UNCHANGED <<dict, dit, arr, stk, lof, grp, walkvars>>

DictGet(key) ==
  /\ ret' = rlang_dict_get(dict, key)
  /\ err' = "none"
  /\ op' = Op("get", key, Missing)
  /\ UNCHANGED <<dict, dit, arr, stk, lof, grp, walkvars>>

DictResize(size) ==
  LET res == rlang_dict_resize(dict, size)
  IN /\ dict' = res.dict
     /\ ret' = FALSE
     /\ err' = res.err
     /\ op' = Op("resize", NoKey, Missing)
     /\ dit' = NoIt
     /\ UNCHANGED <<arr, stk, lof, grp, walkvars>>

DictNewIterator ==
  /\ dit' = rlang_new_dict_iterator(dict)
  /\ ret' = FALSE
  /\ err' = "none"
  /\ op' = Op("new_iterator", NoKey, Missing)
  /\ UNCHANGED <<dict, arr, stk, lof, grp, walkvars>>

DictItNext ==
  /\ dit # NoIt
  /\ LET res == rlang_dict_it_next(dit, dict)
     IN /\ dit' = res.it
        /\ ret' = res.ret
  /\ err' = "none"
  /\ op' = Op("it_next", NoKey, Missing)
  /\ UNCHANGED <<dict, arr, stk, lof, grp, walkvars>>

NextDict ==
  \/ \E k \in Keys, v \in Values : DictPut(k, v)
  \/ \E k \in Keys : DictDel(k)
  \/ \E k \in Keys : DictHas(k)
  \/ \E k \in Keys : DictGet(k)
  \/ \E s \in SizeArgs : DictResize(s)
  \/ DictNewIterator
  \/ DictItNext

SpecDict == InitDict /\ [][NextDict]_vars

\* The bounded dictionary: rlang_new_dict(4L, TRUE), then put and del over
\* five keys.
InitBounded ==
  /\ arr = NoArr
  /\ stk = NoStk
  /\ lof = NoLof
  /\ grp = NoGrp
  /\ dict = rlang_new_dict(r_int(4), r_lgl(TRUE)).dict
  /\ dit = NoIt
  /\ op = Op("new", NoKey, Missing)
  /\ ret = FALSE
  /\ err = "none"
  /\ NoWalk

\* The value the scenario puts under key k: neighbouring keys carry different
\* values.
BoundedValue(k) == IF k % 2 = 0 THEN "a" ELSE "b"

BoundedPut(key, value) ==
  LET res == rlang_dict_put(dict, key, value)
  IN /\ Len(res.dict.order) <= MaxBoundedSlots
     /\ dict' = res.dict
     /\ ret' = res.ret
     /\ err' = res.err
     /\ op' = Op("put", key, value)
     /\ dit' = NoIt
     /\ UNCHANGED <<arr, stk, lof, grp, walkvars>>

NextBounded ==
  \/ \E k \in BoundedKeys : BoundedPut(k, BoundedValue(k))
  \/ \E k \in BoundedKeys : DictDel(k)

SpecBounded == InitBounded /\ [][NextBounded]_vars

\* ------------------------------------------------------- array actions

\* The entry point called, its argument, and the capacity and the count
\* rlang_arr_info() gave before the call.
ArrOp(name, x) ==
  [name |-> name, x |-> x, capacity |-> rlang_arr_info(arr).capacity,
   count |-> rlang_arr_info(arr).count]

\* The vectors pushed: of 1-byte, 8-byte and pointer-sized elements.
PushArgs == {r_vec(t, v) : t \in {"raw", "double", "list"}, v \in {"x", "y"}}

CapacityArgs == {r_int(n) : n \in (-1)..MaxArrCap}

\* The arrays rlang_new_dyn_vector() and rlang_new_dyn_array() create.
NewArrays ==
  {rlang_new_dyn_vector(r_chr(t), r_int(c)).arr :
     t \in {"double", "list"}, c \in 0..InitArrCap}
    \cup {rlang_new_dyn_array(r_int(SizeofBool), r_int(c)).arr :
            c \in 0..InitArrCap}

NoDict == r_new_dict(1)

InitArr ==
  /\ arr \in NewArrays
  /\ stk = NoStk
  /\ lof = NoLof
  /\ grp = NoGrp
  /\ dict = NoDict
  /\ dit = NoIt
  /\ op = [name |-> "new", x |-> r_null, capacity |-> 0, count |-> 0]
  /\ ret = FALSE
  /\ err = "none"
  /\ NoWalk

ArrPushBack(x) ==
  LET res == rlang_arr_push_back(arr, x)
  IN /\ res.arr.capacity <= MaxArrCap
     /\ arr' = res.arr
     /\ err' = res.err
     /\ op' = ArrOp("push_back", x)
     /\ UNCHANGED <<dict, dit, stk, lof, grp, ret, walkvars>>

ArrPushBackBool(x_sexp) ==
  \E res \in rlang_arr_push_back_bool(arr, x_sexp) :
     /\ res.arr.capacity <= MaxArrCap
     /\ arr' = res.arr
     /\ err' = res.err
     /\ op' = ArrOp("push_back_bool", x_sexp)
     /\ UNCHANGED <<dict, dit, stk, lof, grp, ret, walkvars>>

ArrPopBack ==
  LET res == rlang_arr_pop_back(arr)
  IN /\ arr' = res.arr
     /\ err' = res.err
     /\ op' = ArrOp("pop_back", r_null)
     /\ UNCHANGED <<dict, dit, stk, lof, grp, ret, walkvars>>

ArrResize(capacity_sexp) ==
  LET res == rlang_arr_resize(arr, capacity_sexp)
  IN /\ arr' = res.arr
     /\ err' = res.err
     /\ op' = ArrOp("resize", capacity_sexp)
     /\ UNCHANGED <<dict, dit, stk, lof, grp, ret, walkvars>>

NextArr ==
  \/ \E x \in PushArgs : ArrPushBack(x)
  \/ \E b \in BOOLEAN : ArrPushBackBool(r_lgl(b))
  \/ ArrPopBack
  \/ \E c \in CapacityArgs : ArrResize(c)

SpecArr == InitArr /\ [][NextArr]_vars

\* A push-then-pop run on a new, empty array: up to MaxPushes pushes of
\* elements of the array's element size, then pops, no more than were pushed.
StackPush(x) ==
  LET res == rlang_arr_push_back(arr, x)
  IN /\ stk.popped = 0
     /\ stk.pushed < MaxPushes
     /\ arr.barrier_set \/ r_vec_elt_sizeof(x) = arr.elt_byte_size
     /\ arr' = res.arr
     /\ err' = res.err
     /\ op' = ArrOp("push_back", x)
     /\ stk' = [stk EXCEPT !.pushed = @ + 1,
                           !.cap = rlang_arr_info(res.arr).capacity]
     /\ UNCHANGED <<dict, dit, lof, grp, ret, walkvars>>

StackPop ==
  LET res == rlang_arr_pop_back(arr)
  IN /\ stk.popped < stk.pushed
     /\ arr' = res.arr
     /\ err' = res.err
     /\ op' = ArrOp("pop_back", r_null)
     /\ stk' = [stk EXCEPT !.popped = @ + 1]
     /\ UNCHANGED <<dict, dit, lof, grp, ret, walkvars>>

NextStack ==
  \/ \E x \in PushArgs : StackPush(x)
  \/ StackPop

SpecStack == InitArr /\ [][NextStack]_vars

\* ------------------------------------------------------ list-of actions

\* The entry point called, the index given and the type of the value given.
LofOp(name, i, type) == [name |-> name, i |-> i, type |-> type]

\* The vectors pushed into a group: of the list-of's type and of another.
GroupArgs == {r_vec("double", "x"), r_vec("double", "y"), r_vec("logical", "x")}

IndexArgs == {r_int(i) : i \in (-1)..WidthCapacity}

InitLof ==
  /\ lof \in {ffi_new_dyn_list_of(r_chr("double"), r_int(c), r_int(w)) :
                c \in 1..WidthCapacity, w \in 1..InitWidth}
  /\ grp = NoGrp
  /\ arr = NoArr
  /\ stk = NoStk
  /\ dict = NoDict
  /\ dit = NoIt
  /\ op = LofOp("new", -1, "NULL")
  /\ ret = FALSE
  /\ err = "none"
  /\ NoWalk

LofPushBack ==
  LET res == ffi_lof_push_back(lof)
  IN /\ lof.count < WidthCapacity
     /\ lof' = res.lof
     /\ err' = res.err
     /\ grp' = [pushed |-> Append(grp.pushed, <<>>),
                relocs |-> Append(grp.relocs, FALSE)]
     /\ op' = LofOp("push_back", -1, "NULL")
     /\ UNCHANGED <<dict, dit, arr, stk, ret, walkvars>>

LofArrPushBack(i, value) ==
  LET res == ffi_lof_arr_push_back(lof, i, value)
      g == r_as_ssize(i) + 1
  IN /\ \A b \in DOMAIN res.lof.bufs : res.lof.bufs[b].capacity <= MaxGroupCap
     /\ lof' = res.lof
     /\ err' = res.err
     /\ grp' = IF res.err = "none"
               THEN [pushed |-> [grp.pushed EXCEPT ![g] = Append(@, value.val)],
                     relocs |-> [grp.relocs EXCEPT
                                   ![g] = @ \/ res.lof.relocated]]
               ELSE grp
     /\ op' = LofOp("arr_push_back", r_as_ssize(i), r_typeof(value))
     /\ UNCHANGED <<dict, dit, arr, stk, ret, walkvars>>

NextLof ==
  \/ LofPushBack
  \/ \E i \in IndexArgs, v \in GroupArgs : LofArrPushBack(i, v)

SpecLof == InitLof /\ [][NextLof]_vars

\* --------------------------------------------------------- walk actions

contvars == <<dict, dit, arr, stk, lof, grp, op, ret, err>>

\* The containers' variables in the specifications of the walk.
NoContainers ==
  /\ dict = NoDict
  /\ dit = NoIt
  /\ arr = NoArr
  /\ stk = NoStk
  /\ lof = NoLof
  /\ grp = NoGrp
  /\ op = Op("new", NoKey, Missing)
  /\ ret = FALSE
  /\ err = "none"

\* The sequences of at most n elements of S.
SeqsUpTo(S, n) == UNION {[1..k -> S] : k \in 0..n}

\* The graphs walked: object 1 is the global environment, 2 and 3 are lists,
\* 4 is an environment and 5 a double vector. A list holds no list that
\* holds it (lists are values); the environment may refer to any one object,
\* itself and the lists that hold it included.
NodeType(n) ==
  CASE n \in {1, 4} -> "environment"
    [] n \in {2, 3} -> "list"
    [] n = 5 -> "double"

WalkHeaps ==
  {[n \in 1..5 |->
      [type |-> NodeType(n),
       children |-> CASE n = 1 -> <<5>>
                      [] n = 2 -> c2
                      [] n = 3 -> c3
                      [] n = 4 -> c4
                      [] n = 5 -> <<>>]] :
     c2 \in SeqsUpTo({1, 3, 4, 5}, MaxChildren),
     c3 \in SeqsUpTo({1, 4, 5}, 1),
     c4 \in SeqsUpTo(1..5, 1)}

Roots == {1, 2, 4}

\* A chain of ChainLen lists, each holding the global environment and the
\* next list.
ChainHeap ==
  [n \in 1..(ChainLen + 1) |->
     IF n = 1 THEN [type |-> "environment", children |-> <<>>]
     ELSE [type |-> "list",
           children |-> IF n = ChainLen + 1 THEN <<1>> ELSE <<1, n + 1>>]]

\* ffi_sexp_iterate(x, fn) has made its containers and its iterator.
SexpIterate(h, x) ==
  /\ heap = h
  /\ p_it = sexp_iterate_new(x).p_it
  /\ p_dict = sexp_iterate_new(x).p_dict
  /\ p_out = sexp_iterate_new(x).p_out
  /\ iter_i = 0
  /\ pc = "next"
  /\ interrupt = FALSE
  /\ since = -1

InitWalk ==
  /\ NoContainers
  /\ \E h \in WalkHeaps, x \in Roots : SexpIterate(h, x)

InitCancel ==
  /\ NoContainers
  /\ SexpIterate(ChainHeap, 2)

\* Mutant: the loop body runs once more after r_sexp_next() was false.
SexpNext_once_more ==
  LET res == r_sexp_next(heap, p_it)
  IN /\ pc = "next"
     /\ p_it' = res.it
     /\ pc' = IF res.ret \/ p_it.x # NoNode THEN "yield" ELSE "done"
     /\ since' = IF since >= 0 /\ res.ret THEN since + 1 ELSE since
     /\ UNCHANGED <<heap, p_dict, p_out, iter_i, interrupt, contvars>>

\* The loop condition: r_sexp_next(). When it is false the loop is over and
\* ffi_sexp_iterate() returns the output list.
SexpNext ==
  LET res == r_sexp_next(heap, p_it)
  IN /\ pc = "next"
     /\ p_it' = res.it
     /\ pc' = IF res.ret THEN "yield" ELSE "done"
     /\ since' = IF since >= 0 /\ res.ret THEN since + 1 ELSE since
     /\ UNCHANGED <<heap, p_dict, p_out, iter_i, interrupt, contvars>>

\* Every YieldInterval iterations r_yield_interrupt() is called: a pending
\* interrupt ends the walk there.
SexpYield ==
  /\ pc = "yield"
  /\ pc' = IF sexp_iterate_yields(iter_i) /\ interrupt
           THEN "cancelled" ELSE "visit"
  /\ UNCHANGED <<heap, p_it, p_dict, p_out, iter_i, interrupt, since, contvars>>

\* The rest of the loop body, then ++i.
SexpVisit ==
  LET res == sexp_iterate_body(heap, p_it, p_dict, p_out)
  IN /\ pc = "visit"
     /\ p_it' = res.p_it
     /\ p_dict' = res.p_dict
     /\ p_out' = res.p_out
     /\ iter_i' = iter_i + 1
     /\ pc' = "next"
     /\ UNCHANGED <<heap, interrupt, since, contvars>>

\* The host raises the interrupt signal while the walk is under way.
RaiseInterrupt ==
  /\ pc \in {"next", "yield", "visit"}
  /\ ~interrupt
  /\ interrupt' = TRUE
  /\ since' = 0
  /\ UNCHANGED <<heap, p_it, p_dict, p_out, iter_i, pc, contvars>>

NextWalk ==
  \/ SexpNext
  \/ SexpYield
  \/ SexpVisit

SpecWalk == InitWalk /\ [][NextWalk]_vars

NextCancel ==
  \/ SexpNext
  \/ SexpYield
  \/ SexpVisit
  \/ RaiseInterrupt

SpecCancel == InitCancel /\ [][NextCancel]_vars

\* ------------------------------------------------- observing a dictionary

\* The live slots of the insertion-order record, oldest first.
LiveSlots(d) ==
  LET IsLive(s) == s.live
  IN SelectSeq(d.order, IsLive)

LiveKeys(d) == {d.order[p].key : p \in {q \in 1..Len(d.order) : d.order[q].live}}

\* What a fresh iterator gives when advanced until it returns false.
RECURSIVE IterAll(_, _)
IterAll(it, d) ==
  LET r == rlang_dict_it_next(it, d)
  IN IF r.ret
     THEN <<[key |-> rlang_dict_it_info(r.it).key,
             value |-> rlang_dict_it_info(r.it).value]>> \o IterAll(r.it, d)
     ELSE <<>>

DictEntries(d) == IterAll(rlang_new_dict_iterator(d), d)

\* ---------------------------------------------------------------- claims

\* C1 (state part): right after a successful put(k, v), get(k) is v and
\* has(k) is true; right after del(k), has(k) is false and get(k) is Missing.
C1_Post ==
  /\ (op.name = "put" /\ err = "none") =>
        /\ rlang_dict_get(dict, op.key) = op.value
        /\ rlang_dict_has(dict, op.key)
  /\ op.name = "del" =>
        /\ ~rlang_dict_has(dict, op.key)
        /\ rlang_dict_get(dict, op.key) = Missing

\* C1 (step part): a step changes what get(k) and has(k) answer only when it
\* is a put or a del of that same key k.
C1_Frame ==
  \A k \in Keys :
    \/ op'.key = k /\ op'.name \in {"put", "del"}
    \/ /\ rlang_dict_get(dict', k) = rlang_dict_get(dict, k)
       /\ rlang_dict_has(dict', k) = rlang_dict_has(dict, k)

\* C1: dictionary round trip. A value put under a key is what get returns
\* until that key is deleted or overwritten, whatever is done to other keys
\* (put, del, has, get, resize, iteration); after del the key is missing.
C1_RoundTrip == []C1_Post /\ [][C1_Frame]_vars

\* C1 witness: a key was just deleted and reads as missing while another key
\* still reads the value it was overwritten with.
C1_Witness ==
  /\ op.name = "del" /\ ret = TRUE
  /\ rlang_dict_get(dict, op.key) = Missing
  /\ \E k \in Keys : k # op.key /\ rlang_dict_get(dict, k) = "b"
  /\ Len(dict.order) > dict.count

\* C2: bounded dictionary. On the dictionary created with capacity 4 and
\* prevent_resize = TRUE, a put of a key that is not present returns TRUE
\* while fewer than 4 entries are live (so the first 4 distinct keys go in,
\* and so does a new key after a del), and with 4 live entries it fails with
\* CapacityExceeded and leaves the dictionary (keys, values, order, count,
\* capacity) as it was.
C2_Bounded ==
  [][(op'.name = "put" /\ ~rlang_dict_has(dict, op'.key)) =>
       IF dict.count < 4
       THEN /\ ret' = TRUE /\ err' = "none"
            /\ dict'.count = dict.count + 1
            /\ rlang_dict_get(dict', op'.key) = op'.value
            /\ dict'.capacity = 4
       ELSE /\ err' = "CapacityExceeded"
            /\ dict' = dict
            /\ DictEntries(dict') = DictEntries(dict)]_vars

\* C2 witness: the 5th distinct key was refused with 4 entries live, after
\* an earlier del freed a place that a new key then took.
C2_Witness ==
  /\ op.name = "put" /\ err = "CapacityExceeded"
  /\ dict.count = 4 /\ dict.capacity = 4
  /\ Len(dict.order) = 5
  /\ ~rlang_dict_has(dict, op.key)

\* C3 (step part): a put that raises no error returns TRUE exactly when the
\* key (by identity) was absent before, and then adds one entry; it returns
\* FALSE exactly when the key was present, and then only that key's value
\* changes.
C3_PutStep ==
  (op'.name = "put" /\ err' = "none") =>
    /\ ret' = ~rlang_dict_has(dict, op'.key)
    /\ ret' = TRUE  => /\ dict'.count = dict.count + 1
                       /\ LiveKeys(dict') = LiveKeys(dict) \cup {op'.key}
    /\ ret' = FALSE => /\ dict'.count = dict.count
                       /\ LiveKeys(dict') = LiveKeys(dict)
                       /\ rlang_dict_get(dict', op'.key) = op'.value

\* C3 (state part): no two live entries hold the same identity key, and the
\* entry count is the number of distinct live keys.
C3_Unique ==
  /\ \A p, q \in 1..Len(dict.order) :
       (dict.order[p].live /\ dict.order[q].live
          /\ dict.order[p].key = dict.order[q].key) => p = q
  /\ dict.count = Cardinality(LiveKeys(dict))
  /\ Len(DictEntries(dict)) = dict.count

\* C3: put returns TRUE exactly for a key that was not present and FALSE
\* exactly when it updated a present key; keys stay unique by identity and
\* the count is the number of distinct live keys after any put, del, resize.
C3_PutUnique == []C3_Unique /\ [][C3_PutStep]_vars

\* C3 witness: a put just returned FALSE for a present key while a distinct
\* key object of the same structure is live beside it.
C3_Witness ==
  /\ op.name = "put" /\ ret = FALSE /\ err = "none"
  /\ \E k \in LiveKeys(dict) :
       k # op.key /\ KeyContent(k) = KeyContent(op.key)
  /\ dict.count = 3

\* C4 (step): an explicit resize that raises no error leaves the entries an
\* iterator gives (keys, values, order) and every get as they were; a put
\* that doubles the capacity keeps the old entries, in order, before the new
\* one.
C4_ResizeStep ==
  /\ (op'.name = "resize" /\ err' = "none") =>
        /\ DictEntries(dict') = DictEntries(dict)
        /\ \A k \in Keys : rlang_dict_get(dict', k) = rlang_dict_get(dict, k)
  /\ (op'.name = "put" /\ dict'.capacity # dict.capacity) =>
        /\ ~dict.prevent_resize
        /\ dict'.capacity = 2 * dict.capacity
        /\ DictEntries(dict') =
             Append(DictEntries(dict), [key |-> op'.key, value |-> op'.value])
        /\ \A k \in Keys \ {op'.key} :
             rlang_dict_get(dict', k) = rlang_dict_get(dict, k)

\* C4: order preservation. Resizing a dictionary, explicitly or by the
\* doubling of a put on a full dictionary without prevent_resize, preserves
\* every mapping and the relative insertion order.
C4_OrderPreserved == [][C4_ResizeStep]_vars

\* C4 witness: an explicit resize to capacity 3 just succeeded on a dictionary
\* whose three entries were not put in key order, so that the first entry an
\* iterator gives is not the one a walk of the buckets would give first.
C4_Witness ==
  /\ op.name = "resize" /\ err = "none"
  /\ dict.capacity = 3 /\ dict.count = 3
  /\ DictEntries(dict)[1].key > DictEntries(dict)[2].key
  /\ DictEntries(dict)[1].value # DictEntries(dict)[2].value

\* C5 (state part): a live iterator over an unmutated dictionary holds the
\* count it snapped, has given i + 1 <= n entries, and its key and value are
\* those of entry i + 1 in insertion order; its last advance returned FALSE
\* only with all n entries given.
C5_ItState ==
  dit # NoIt =>
    /\ rlang_dict_it_info(dit).n = dict.count
    /\ rlang_dict_it_info(dit).i < rlang_dict_it_info(dit).n
    /\ rlang_dict_it_info(dit).i >= 0 =>
         /\ rlang_dict_it_info(dit).key =
              LiveSlots(dict)[rlang_dict_it_info(dit).i + 1].key
         /\ rlang_dict_it_info(dit).value =
              LiveSlots(dict)[rlang_dict_it_info(dit).i + 1].value
    /\ (op.name = "it_next" /\ ret = FALSE) =>
         rlang_dict_it_info(dit).i = rlang_dict_it_info(dit).n - 1

\* C5 (step part): an advance returns TRUE exactly when fewer than n entries
\* were given, and then moves to the very next entry; otherwise it returns
\* FALSE and the iterator stays as it is.
C5_ItStep ==
  (op'.name = "it_next") =>
    /\ ret' = (dit.i + 1 < dit.n)
    /\ ret' = TRUE  => dit'.i = dit.i + 1
    /\ ret' = FALSE => dit' = dit

\* C5: dictionary iteration. Over a dictionary with n live entries, not
\* mutated while the iterator lives, advance returns TRUE exactly n times,
\* each time giving the next live entry in insertion order, and FALSE at and
\* after exhaustion.
C5_Iteration == []C5_ItState /\ [][C5_ItStep]_vars

\* C5 witness: the iterator is exhausted after giving the two entries that
\* survive an earlier del, and the advance that just ran returned FALSE.
C5_Witness ==
  /\ op.name = "it_next" /\ ret = FALSE
  /\ dit.n = 2 /\ dit.i = 1
  /\ Len(dict.order) = 3
  /\ ~dict.order[1].live

\* C6: stack law. In a run of N pushes followed by pops on a new, empty
\* array no call raises an error, the count is the pushes less the pops, the
\* pops leave the capacity where the pushes brought it, and after N pops the
\* array is empty again.
C6_StackLaw ==
  /\ err = "none"
  /\ rlang_arr_info(arr).count = stk.pushed - stk.popped
  /\ stk.popped > 0 => rlang_arr_info(arr).capacity = stk.cap
  /\ stk.popped = stk.pushed =>
       /\ rlang_arr_info(arr).count = 0
       /\ rlang_arr_unwrap(arr) = <<>>

\* C6 witness: three pushes grew the array to capacity 4 and three pops
\* emptied it.
C6_Witness ==
  /\ stk.pushed = 3 /\ stk.popped = 3
  /\ op.name = "pop_back"
  /\ rlang_arr_info(arr).count = 0
  /\ rlang_arr_info(arr).capacity = 4

\* C7 (state part): 0 <= count <= capacity, and the array holds count
\* elements.
C7_CountInCapacity ==
  /\ 0 <= arr.count
  /\ arr.count <= arr.capacity
  /\ Len(arr.data) = arr.count

\* C7 (step part): a step that raises the capacity keeps every element that
\* was stored, at its index.
C7_GrowthKeeps ==
  arr'.capacity > arr.capacity =>
    /\ arr'.count >= arr.count
    /\ SubSeq(arr'.data, 1, arr.count) = arr.data

\* C7: in every state reached by creation, push_back, push_back_bool,
\* pop_back and resize, 0 <= count <= capacity, and growth never changes the
\* elements stored.
C7_CountCapacity == []C7_CountInCapacity /\ [][C7_GrowthKeeps]_vars

\* C7 witness: a resize just raised the capacity of a full array of two
\* elements from 2 to 4.
C7_Witness ==
  /\ op.name = "resize" /\ err = "none"
  /\ op.capacity = 2 /\ arr.capacity = 4
  /\ arr.count = 2
  /\ arr.data[1].val # arr.data[2].val

\* Byte size of the element a push entry point is given.
PushedSize(o) ==
  IF o.name = "push_back" THEN r_vec_elt_sizeof(o.x) ELSE SizeofBool

\* C8: every push, through rlang_arr_push_back or rlang_arr_push_back_bool,
\* of an element whose byte size differs from elt_byte_size into an array
\* without barrier fails with TypeMismatch and leaves the array unchanged.
C8_SizeChecked ==
  [][(/\ op'.name \in {"push_back", "push_back_bool"}
      /\ ~arr.barrier_set
      /\ PushedSize(op') # arr.elt_byte_size)
       => (err' = "TypeMismatch" /\ arr' = arr)]_vars

\* C9: pop_back on an empty array fails with Underflow and leaves the array
\* as it was; on an array with elements it takes exactly the last one and
\* leaves the capacity and the other elements alone.
C9_PopBack ==
  [][op'.name = "pop_back" =>
       IF arr.count = 0
       THEN /\ err' = "Underflow"
            /\ arr' = arr
       ELSE /\ err' = "none"
            /\ arr'.count = arr.count - 1
            /\ arr'.capacity = arr.capacity
            /\ arr'.data = SubSeq(arr.data, 1, arr.count - 1)]_vars

\* C9 witness: a pop was just refused with Underflow on an empty array of
\* capacity 2.
C9_Witness ==
  /\ op.name = "pop_back" /\ err = "Underflow"
  /\ arr.count = 0 /\ arr.capacity = 2

\* The values of the elements of group i (from 0), as ffi_lof_info() and
\* ffi_lof_unwrap() give them.
GroupValues(l, i) ==
  [k \in 1..Len(ffi_lof_unwrap(l)[i + 1]) |-> ffi_lof_unwrap(l)[i + 1][k].val]

\* C10 (state part): every group holds exactly the values pushed into it, in
\* push order (a group never pushed into is empty), and a group that took
\* more values than the per-group reserve has reported a relocation.
C10_Groups ==
  /\ ffi_lof_info(lof).count = Len(grp.pushed)
  /\ \A i \in 0..(ffi_lof_info(lof).count - 1) :
       /\ GroupValues(lof, i) = grp.pushed[i + 1]
       /\ ffi_lof_info(lof).arrays[i + 1] = ffi_lof_unwrap(lof)[i + 1]
       /\ Len(grp.pushed[i + 1]) > ffi_lof_info(lof).width => grp.relocs[i + 1]

\* C10 (step part): a push into group i leaves the contents of every other
\* group as they were.
C10_OtherGroups ==
  op'.name = "arr_push_back" =>
    \A j \in 0..(lof.count - 1) :
      j # op'.i => GroupValues(lof', j) = GroupValues(lof, j)

\* C10: group growth integrity. Pushing more values into group 0 than the
\* per-group reserve reports a relocation and leaves group 0 with exactly
\* the values pushed, in order, and the other group as it was.
C10_GroupGrowth == []C10_Groups /\ [][C10_OtherGroups]_vars

\* C10 witness: of two groups, group 0 took three values past a reserve of
\* one and the third push reported a relocation; group 1 is empty.
C10_Witness ==
  /\ lof.count = 2 /\ lof.width = 1
  /\ op.name = "arr_push_back" /\ op.i = 0 /\ err = "none"
  /\ lof.relocated
  /\ GroupValues(lof, 0) = <<"x", "y", "y">>
  /\ GroupValues(lof, 1) = <<>>
  /\ grp.relocs[1]

\* C11: a push into a group through ffi_lof_arr_push_back with an index that
\* is negative or not below the group count raises an error and leaves the
\* groups, the group count and the spare storage as they were; for a value
\* of the list-of's type the error is OutOfBounds.
C11_OutOfBounds ==
  [][(/\ op'.name = "arr_push_back"
      /\ (op'.i < 0 \/ op'.i >= ffi_lof_info(lof).count))
       => /\ err' # "none"
          /\ op'.type = ffi_lof_info(lof).type => err' = "OutOfBounds"
          /\ ffi_lof_info(lof') = ffi_lof_info(lof)
          /\ lof' = lof]_vars

\* C11 witness: with two groups, of which group 0 holds a value, a push of a
\* double into group 2 was just refused with OutOfBounds.
C11_Witness ==
  /\ op.name = "arr_push_back" /\ op.i = 2 /\ op.type = "double"
  /\ err = "OutOfBounds"
  /\ ffi_lof_info(lof).count = 2
  /\ GroupValues(lof, 0) = <<"x">>
  /\ GroupValues(lof, 1) = <<>>

\* ------------------------------------------------------ observing a walk

\* The objects the callback was given so far, in order: argument x of each
\* call, as found in the output list.
EmittedObjects == [k \in 1..Len(p_out.data) |-> p_out.data[k].x.val]

\* How many times the callback was given object n.
Emitted(n) == Cardinality({k \in 1..Len(p_out.data) : EmittedObjects[k] = n})

\* The objects reached from the objects of S along at most n references.
RECURSIVE ReachN(_, _, _)
ReachN(h, S, n) ==
  IF n = 0 THEN S
  ELSE ReachN(h, S \cup UNION {{h[x].children[k] : k \in 1..Len(h[x].children)}
                               : x \in S}, n - 1)

\* The objects x refers to, directly or through other objects.
RefersTo(h, x) ==
  ReachN(h, {h[x].children[k] : k \in 1..Len(h[x].children)},
         Cardinality(DOMAIN h))

\* The root of the walk, once the callback was given it.
WalkRoot == IF Len(p_out.data) > 0 /\ p_out.data[1].rel.val = "root"
            THEN EmittedObjects[1] ELSE NoNode

\* C12: cycle safety. When the walk of a root list that holds an
\* environment referring back to the root, directly or through other
\* objects, has returned, the root was given to the callback exactly once.
C12_CycleSafety ==
  (/\ pc = "done"
   /\ WalkRoot # NoNode
   /\ heap[WalkRoot].type = "list"
   /\ \E e \in RefersTo(heap, WalkRoot) :
        heap[e].type = "environment" /\ WalkRoot \in RefersTo(heap, e))
    => Emitted(WalkRoot) = 1

\* C13: during a walk every list and every environment is given to the
\* callback at most once.
C13_EmittedOnce ==
  \A n \in DOMAIN heap :
    heap[n].type \in {"list", "environment"} => Emitted(n) <= 1

\* C14 (state part): once the interrupt is raised the walk makes at most
\* YieldInterval further advances, skipped objects counted, and goes past
\* the yield into fewer than YieldInterval further loop bodies.
C14_Bounded ==
  /\ since <= YieldInterval
  /\ (interrupt /\ pc = "visit") => since < YieldInterval

\* C14 (step part): the interrupt ends the walk at the yield only, between
\* an advance and the loop body, and leaves the iterator, the visited
\* dictionary and the output as they are; once the walk is cancelled
\* nothing is emitted and the walk stays cancelled.
C14_BetweenSteps ==
  /\ (pc' = "cancelled" /\ pc # "cancelled") =>
       /\ pc = "yield" /\ interrupt
       /\ iter_i % YieldInterval = 0
       /\ UNCHANGED <<p_it, p_dict, p_out, iter_i>>
  /\ pc = "cancelled" => (pc' = "cancelled" /\ UNCHANGED <<p_it, p_dict, p_out>>)

\* C14: cancellation boundedness.
C14_Cancellation == []C14_Bounded /\ [][C14_BetweenSteps]_vars

\* C14 witness: the interrupt was raised during iteration 0, after its
\* yield; the walk went on for a whole interval of 100 advances, half of
\* them of skipped objects, and was cancelled at the yield of iteration 100.
C14_Witness ==
  /\ pc = "cancelled" /\ interrupt
  /\ since = YieldInterval
  /\ iter_i = YieldInterval
  /\ Len(p_out.data) = 50
  /\ p_it.x # NoNode

\* C15: every call of the callback binds each argument name to the
\* attribute of that name of the iterator's current object: x to the
\* object, type to its type, depth to its depth (0 for the root), parent to
\* its parent, rel to its relation, i to its index and dir to its direction.
C15_ArgsPopulated ==
  [][Len(p_out'.data) > Len(p_out.data) =>
       LET args == p_out'.data[Len(p_out'.data)]
       IN /\ args.x = r_obj(heap, p_it.x)
          /\ args.type = r_type_as_character(p_it.type)
          /\ args.depth = r_int(p_it.depth)
          /\ args.parent = r_obj(heap, p_it.parent)
          /\ args.rel = r_chr(p_it.rel)
          /\ args.i = r_int(p_it.i + 1)
          /\ args.dir = r_chr(p_it.dir)]_vars

\* C16: a push that succeeds, through either push entry point, appends
\* exactly one element. Into a full array it first grows the capacity to
\* max(count + 1, capacity * growth_factor), which is more than it was, also
\* from capacity 0; into an array with room it leaves the capacity alone.
C16_PushGrowth ==
  [][(op'.name \in {"push_back", "push_back_bool"} /\ err' = "none") =>
       /\ rlang_arr_info(arr').count = rlang_arr_info(arr).count + 1
       /\ SubSeq(rlang_arr_unwrap(arr'), 1, arr.count) = rlang_arr_unwrap(arr)
       /\ IF rlang_arr_info(arr).count = rlang_arr_info(arr).capacity
          THEN /\ rlang_arr_info(arr').capacity =
                    Max(rlang_arr_info(arr).count + 1,
                        rlang_arr_info(arr).capacity
                          * rlang_arr_info(arr).growth_factor)
               /\ rlang_arr_info(arr').capacity > rlang_arr_info(arr).capacity
          ELSE rlang_arr_info(arr').capacity = rlang_arr_info(arr).capacity]_vars

\* C16 witness: a push into a full array of two elements just grew it from
\* capacity 2 to capacity 4.
C16_Witness ==
  /\ op.name = "push_back" /\ err = "none"
  /\ op.capacity = 2 /\ op.count = 2
  /\ rlang_arr_info(arr).capacity = 4
  /\ rlang_arr_info(arr).count = 3

\* C17: a resize to a capacity that is not negative sets the capacity; below
\* the count it clips the count and keeps the first elements, otherwise the
\* count and the elements stay. A negative capacity is refused with
\* InvalidArgument and nothing changes.
C17_Resize ==
  [][op'.name = "resize" =>
       IF r_as_ssize(op'.x) < 0
       THEN err' = "InvalidArgument" /\ arr' = arr
       ELSE /\ err' = "none"
            /\ rlang_arr_info(arr').capacity = r_as_ssize(op'.x)
            /\ IF r_as_ssize(op'.x) < rlang_arr_info(arr).count
               THEN /\ rlang_arr_info(arr').count = r_as_ssize(op'.x)
                    /\ rlang_arr_unwrap(arr') =
                         SubSeq(rlang_arr_unwrap(arr), 1, r_as_ssize(op'.x))
               ELSE /\ rlang_arr_info(arr').count = rlang_arr_info(arr).count
                    /\ rlang_arr_unwrap(arr') = rlang_arr_unwrap(arr)]_vars

\* C17 witness: a resize to capacity 1 of an array of three elements just
\* left it with its first element.
C17_Witness ==
  /\ op.name = "resize" /\ op.x = r_int(1) /\ err = "none"
  /\ op.count = 3
  /\ rlang_arr_info(arr).count = 1
  /\ rlang_arr_info(arr).capacity = 1
  /\ Len(rlang_arr_unwrap(arr)) = 1

\* The iterator is exhausted: it stands on no object and its stack is empty.
Exhausted == p_it.x = NoNode /\ p_it.stack = <<>>

\* Whether an advance of the iterator finds nothing to visit: the stack is
\* empty and the current object gives no children to push.
NothingPending ==
  /\ p_it.stack = <<>>
  /\ \/ p_it.x = NoNode
     \/ p_it.skip_incoming
     \/ heap[p_it.x].children = <<>>

\* C18 (state part): the walk has returned exactly when the iterator is
\* exhausted, and a further advance of an exhausted iterator returns false
\* and leaves the iterator as it is.
C18_Terminal ==
  /\ pc = "done" <=> Exhausted
  /\ Exhausted => r_sexp_next(heap, p_it) = [it |-> p_it, ret |-> FALSE]

\* C18 (step part): an advance returns false, and ends the loop, exactly
\* when the frame stack is empty; after exhaustion nothing is emitted and
\* the frame stack and the visited dictionary stay as they are.
C18_Step ==
  /\ pc = "next" => (pc' = "done" <=> NothingPending)
  /\ Exhausted => (/\ pc' = "done"
                   /\ UNCHANGED <<p_it, p_dict, p_out>>)

\* C18: advance returns false as soon as the frame stack is empty, and
\* exhaustion is terminal.
C18_ExhaustedTerminal == []C18_Terminal /\ [][C18_Step]_vars

\* C18 witness: the walk of a root list of two vectors has returned after
\* three calls of the callback, its iterator exhausted.
C18_Witness ==
  /\ pc = "done" /\ Exhausted
  /\ heap[2].children = <<5, 5>>
  /\ EmittedObjects = <<2, 5, 5>>
  /\ iter_i = 3

\* Whether the loop body skips the iterator's current object: the global
\* environment, or an environment the visited dictionary holds already.
Skipped ==
  \/ p_it.x = r_global_env
  \/ p_it.type = "environment" /\ r_dict_has(p_dict, p_it.x)

\* C19 (state part): the callback is never given the global environment,
\* and never the same environment twice.
C19_NotEmitted ==
  /\ Emitted(r_global_env) = 0
  /\ \A n \in DOMAIN heap : heap[n].type = "environment" => Emitted(n) <= 1

\* C19 (step part): the loop body sets skip_incoming on a skipped object
\* and adds nothing to the output list for it; the advance that follows a
\* set skip_incoming pushes none of the object's children: it pops the next
\* frame of the stack as it was, or is exhausted.
C19_Step ==
  /\ (pc = "visit" /\ Skipped) =>
       /\ p_it'.skip_incoming
       /\ p_it'.x = p_it.x
       /\ p_out' = p_out
  /\ (pc = "visit" /\ ~Skipped) =>
       /\ ~p_it'.skip_incoming
       /\ Len(p_out'.data) = Len(p_out.data) + 1
  /\ (pc = "next" /\ p_it.skip_incoming) =>
       IF p_it.stack = <<>>
       THEN pc' = "done" /\ p_it'.stack = <<>>
       ELSE /\ p_it'.x = p_it.stack[Len(p_it.stack)].x
            /\ p_it'.stack = SubSeq(p_it.stack, 1, Len(p_it.stack) - 1)

\* C19: skip_incoming prunes the children of the current object, and the
\* walk uses it for the global environment and for an environment met again.
C19_SkipDescent == []C19_NotEmitted /\ [][C19_Step]_vars

\* C19 witness: the root list holds the global environment and an
\* environment that refers to itself. The walk has returned: the callback
\* was given the root and the environment once; the global environment and
\* the vector it alone refers to were never given.
C19_Witness ==
  /\ pc = "done"
  /\ heap[2].children = <<1, 4>>
  /\ heap[4].children = <<4>>
  /\ EmittedObjects = <<2, 4>>
  /\ iter_i = 4
  /\ Emitted(5) = 0

====
